---- MODULE Spec2Model ----
(***************************************************************************)
(* Model of machina/loss_functional.py: the loss functions of the machina  *)
(* reinforcement-learning library.                                         *)
(*                                                                         *)
(* Every loss is a pure function of a batch and of the outputs of its      *)
(* collaborators (policy, value function, critics, distribution).  A loss  *)
(* is modelled as an operator over tensors; a specification draws the      *)
(* inputs of one call in Init and its action applies the loss.             *)
(*                                                                         *)
(* Numbers are exact rationals <<numerator, denominator>> in lowest terms  *)
(* with a positive denominator, so that the float arithmetic of the source *)
(* is modelled without rounding.  A tensor is a record                     *)
(*     [r |-> rank, v |-> value, g |-> set of parameters]                  *)
(* with rank 0 (a Python float or a 0-dim tensor: v is a rational), rank 1 *)
(* (v is a sequence of rationals) or rank 2 (v is a sequence of rows).     *)
(* The field g is the set of parameter groups the tensor is connected to   *)
(* in the autograd graph; detach() empties it.                             *)
(***************************************************************************)
EXTENDS Integers, Sequences, FiniteSets, TLC

VARIABLES fn, args, out, pc, hidden, calls

vars == <<fn, args, out, pc, hidden, calls>>

(***************************************************************************)
(* Bounds of the model.                                                    *)
(***************************************************************************)
\* the largest batch (leading dimension of every batch field)
MaxBatch == 4
\* the largest number of Monte-Carlo samples (argument "sampling")
MaxSampling == 2
\* the largest critic ensemble handed to sac
MaxEnsemble == 3
\* the number of loss calls the training loop makes in SpecCalls
MaxCalls == 3

(***************************************************************************)
(* Exact rational arithmetic.                                              *)
(***************************************************************************)
Abs(n) == IF n < 0 THEN -n ELSE n

RECURSIVE GCD(_, _)
GCD(a, b) == IF b = 0 THEN a ELSE GCD(b, a % b)

Rat(n, d) ==
    LET s == IF d < 0 THEN -1 ELSE 1
        g == GCD(Abs(n), Abs(d))
    IN  <<(s * n) \div g, (s * d) \div g>>

Q(n) == <<n, 1>>
RZero == Q(0)
ROne == Q(1)
RHalf == <<1, 2>>

RAdd(a, b) == Rat(a[1] * b[2] + b[1] * a[2], a[2] * b[2])
RSub(a, b) == Rat(a[1] * b[2] - b[1] * a[2], a[2] * b[2])
RMul(a, b) == Rat(a[1] * b[1], a[2] * b[2])
RDivInt(a, n) == Rat(a[1], a[2] * n)
RNeg(a) == <<-a[1], a[2]>>
RLe(a, b) == a[1] * b[2] <= b[1] * a[2]
RMax(a, b) == IF RLe(a, b) THEN b ELSE a
RMin(a, b) == IF RLe(a, b) THEN a ELSE b
RSq(a) == RMul(a, a)

\* torch.exp on the integer arguments the model uses, rounded to one decimal
\* place (exp(0) is exactly 1).
RExp(a) ==
    CASE a = Q(0) -> ROne
      [] a = Q(1) -> <<27, 10>>
      [] a = Q(-1) -> <<2, 5>>
      [] a = Q(2) -> <<37, 5>>
      [] a = Q(-2) -> <<1, 10>>

\* torch.clamp(x, lo, hi) = min(max(x, lo), hi); when lo > hi the result is hi.
RClamp(x, lo, hi) == RMin(RMax(x, lo), hi)

(***************************************************************************)
(* Tensors.                                                                *)
(***************************************************************************)
T(r, v, g) == [r |-> r, v |-> v, g |-> g]

\* a Python float
F(x) == T(0, x, {})

Map1(Op(_), r, v) ==
    CASE r = 0 -> Op(v)
      [] r = 1 -> [i \in DOMAIN v |-> Op(v[i])]
      [] r = 2 -> [s \in DOMAIN v |-> [i \in DOMAIN v[s] |-> Op(v[s][i])]]

\* elementwise binary operation with torch's broadcasting: a rank-0 operand
\* is broadcast to the other operand, a rank-1 operand to every row of a
\* rank-2 operand.
Map2(Op(_, _), ra, va, rb, vb) ==
    CASE ra = 0 /\ rb = 0 -> Op(va, vb)
      [] ra = 0 /\ rb > 0 -> Map1(LAMBDA y : Op(va, y), rb, vb)
      [] ra > 0 /\ rb = 0 -> Map1(LAMBDA x : Op(x, vb), ra, va)
      [] ra = 1 /\ rb = 1 -> [i \in DOMAIN va |-> Op(va[i], vb[i])]
      [] ra = 2 /\ rb = 2 ->
            [s \in DOMAIN va |-> [i \in DOMAIN va[s] |-> Op(va[s][i], vb[s][i])]]
      [] ra = 1 /\ rb = 2 ->
            [s \in DOMAIN vb |-> [i \in DOMAIN vb[s] |-> Op(va[i], vb[s][i])]]
      [] ra = 2 /\ rb = 1 ->
            [s \in DOMAIN va |-> [i \in DOMAIN va[s] |-> Op(va[s][i], vb[i])]]

MaxRank(a, b) == IF a >= b THEN a ELSE b

Bin(Op(_, _), a, b) ==
    T(MaxRank(a.r, b.r), Map2(Op, a.r, a.v, b.r, b.v), a.g \cup b.g)

Un(Op(_), a) == T(a.r, Map1(Op, a.r, a.v), a.g)

TAdd(a, b) == Bin(RAdd, a, b)
TSub(a, b) == Bin(RSub, a, b)
TMul(a, b) == Bin(RMul, a, b)
TNeg(a) == Un(RNeg, a)
TSq(a) == Un(RSq, a)
TExp(a) == Un(RExp, a)
TMaxE(a, b) == Bin(RMax, a, b)
TMinE(a, b) == Bin(RMin, a, b)
TClamp(a, lo, hi) == Un(LAMBDA x : RClamp(x, lo, hi), a)

\* tensor.detach(): the same values, cut off from the graph
Detach(a) == T(a.r, a.v, {})

\* torch.ones_like(a)
OnesLike(a) == T(a.r, Map1(LAMBDA x : ROne, a.r, a.v), {})

RECURSIVE SeqSum(_)
SeqSum(s) == IF s = <<>> THEN RZero ELSE RAdd(Head(s), SeqSum(Tail(s)))

RECURSIVE SeqMax(_)
SeqMax(s) == IF Len(s) = 1 THEN s[1] ELSE RMax(Head(s), SeqMax(Tail(s)))

RECURSIVE SeqMin(_)
SeqMin(s) == IF Len(s) = 1 THEN s[1] ELSE RMin(Head(s), SeqMin(Tail(s)))

RECURSIVE Concat(_)
Concat(rows) == IF rows = <<>> THEN <<>> ELSE Head(rows) \o Concat(Tail(rows))

\* all the elements of a tensor, in order
Elems(a) ==
    CASE a.r = 0 -> <<a.v>>
      [] a.r = 1 -> a.v
      [] a.r = 2 -> Concat(a.v)

\* torch.sum(a), torch.mean(a): over every element, a 0-dim result
TSum(a) == T(0, SeqSum(Elems(a)), a.g)
TMean(a) == T(0, RDivInt(SeqSum(Elems(a)), Len(Elems(a))), a.g)

\* torch.mean(a, dim=0) of a rank-2 tensor [sample][batch]
TMeanDim0(a) ==
    T(1, [i \in DOMAIN a.v[1] |->
            RDivInt(SeqSum([s \in DOMAIN a.v |-> a.v[s][i]]), Len(a.v))], a.g)

\* torch.mean(a, dim=-1) of a rank-2 tensor [batch][feature]
TMeanLast(a) ==
    T(1, [i \in DOMAIN a.v |-> RDivInt(SeqSum(a.v[i]), Len(a.v[i]))], a.g)

\* torch.min(a), torch.max(a) with one argument: over every element
TMinAll(a) == T(0, SeqMin(Elems(a)), a.g)
TMaxAll(a) == T(0, SeqMax(Elems(a)), a.g)

\* the reduction shared by the masked losses: torch.mean(loss * out_masks)
Mut_MaskedMean(loss, out_masks) == TMean(loss)

MaskedMean(loss, out_masks) == TMean(TMul(loss, out_masks))

(***************************************************************************)
(* On-policy losses.  The collaborators' outputs are inputs of the model:  *)
(* new_llh = pd.llh(acs, pd_params), old_llh = pd.llh(acs, batch),         *)
(* ent = pd.ent(pd_params), kl = pd.kl_pq(batch, pd_params).               *)
(***************************************************************************)
\* the mask of a loss: the batch's for a recurrent model, else all ones
OutMasks(rnn, batch, like) == IF rnn THEN batch.out_masks ELSE OnesLike(like)

\* pg_clip with the clipped term taken at the lower clip bound
Mut_pg_clip_terms(ratio, advs, clip_param) ==
    [pol_loss1 |-> TNeg(TMul(ratio, advs)),
     pol_loss2 |-> TNeg(TMul(TClamp(ratio, RSub(ROne, clip_param),
                                    RSub(ROne, clip_param)), advs))]

pg_clip_terms(ratio, advs, clip_param) ==
    [pol_loss1 |-> TNeg(TMul(ratio, advs)),
     pol_loss2 |-> TNeg(TMul(TClamp(ratio, RSub(ROne, clip_param),
                                    RAdd(ROne, clip_param)), advs))]

pg_clip(rnn, old_llh, new_llh, ent, batch, clip_param, ent_beta) ==
    LET advs == batch.advs
        out_masks == OutMasks(rnn, batch, advs)
        ratio == TExp(TSub(new_llh, old_llh))
        terms == pg_clip_terms(ratio, advs, clip_param)
        pol_loss == TMaxE(terms.pol_loss1, terms.pol_loss2)
        masked == MaskedMean(pol_loss, out_masks)
    IN  [ratio |-> ratio,
         pol_loss1 |-> terms.pol_loss1,
         pol_loss2 |-> terms.pol_loss2,
         surrogate |-> masked,
         pol_loss |-> TSub(masked, TMul(F(ent_beta), TMean(ent)))]

\* pg_kl with the KL term entering as a bonus
Mut_pg_kl_penalised(pol_loss, kl_beta, kl, out_masks) ==
    TAdd(pol_loss, TMul(TMul(F(kl_beta), kl), out_masks))

pg_kl_penalised(pol_loss, kl_beta, kl, out_masks) ==
    TSub(pol_loss, TMul(TMul(F(kl_beta), kl), out_masks))

pg_kl(rnn, old_llh, new_llh, kl, ent, batch, kl_beta, ent_beta) ==
    LET advs == batch.advs
        out_masks == OutMasks(rnn, batch, advs)
        ratio == TExp(TSub(new_llh, old_llh))
        pol_loss0 == TMul(TMul(ratio, advs), out_masks)
        pol_loss1 == pg_kl_penalised(pol_loss0, kl_beta, kl, out_masks)
        pol_loss2 == TNeg(TMean(pol_loss1))
    IN  [ratio |-> ratio,
         pol_loss |-> TSub(pol_loss2, TMul(F(ent_beta), TMean(ent)))]

pg(rnn, llh, ent, batch, ent_beta) ==
    LET advs == batch.advs
        out_masks == OutMasks(rnn, batch, advs)
        pol_loss == TNeg(MaskedMean(TMul(llh, advs), out_masks))
    IN  [pol_loss |-> TSub(pol_loss, TMul(F(ent_beta), TMean(ent)))]

\* monte_carlo with the clipped prediction centred on the new prediction's
\* clipped value alone (old_vs dropped from the sum)
Mut_vpredclipped(vs, old_vs, clip_param) ==
    TClamp(TSub(vs, old_vs), RNeg(clip_param), clip_param)

vpredclipped(vs, old_vs, clip_param) ==
    TAdd(old_vs, TClamp(TSub(vs, old_vs), RNeg(clip_param), clip_param))

monte_carlo(rnn, vs, batch, clip_param, clip) ==
    LET rets == batch.rets
        out_masks == OutMasks(rnn, batch, rets)
        vfloss1 == TSq(TSub(vs, rets))
        vfloss2 == TSq(TSub(vpredclipped(vs, batch.vs, clip_param), rets))
    IN  IF clip
        THEN [vfloss1 |-> vfloss1, vfloss2 |-> vfloss2,
              vf_loss |-> TMul(F(RHalf), MaskedMean(TMaxE(vfloss1, vfloss2), out_masks))]
        ELSE [vfloss1 |-> vfloss1, vfloss2 |-> vfloss1,
              vf_loss |-> TMul(F(RHalf), MaskedMean(vfloss1, out_masks))]

\* torch.ones(obs.size()[0]): one entry per batch row
OnesRows(obs) == T(1, [i \in DOMAIN obs.v |-> ROne], {})

dynamics(rnn, pred, batch, target, td) ==
    LET out_masks == IF rnn THEN batch.out_masks ELSE OnesRows(batch.obs)
        dm_loss == IF target = "rews" \/ ~td
                   THEN TSq(TSub(pred, batch[target]))
                   ELSE TSq(TSub(pred, TSub(batch.next_obs, batch.obs)))
    IN  [dm_loss_elem |-> dm_loss,
         dm_loss |-> TMul(F(RHalf), MaskedMean(TMeanLast(dm_loss), out_masks))]

(***************************************************************************)
(* Input domains.                                                          *)
(***************************************************************************)
\* every vector of length n over the set S of integers, as rationals
Vecs(S, n) == {[i \in 1..n |-> Q(f[i])] : f \in [1..n -> S]}

Const(x, n) == [i \in 1..n |-> Q(x)]
Alt(x, y, n) == [i \in 1..n |-> IF i % 2 = 1 THEN Q(x) ELSE Q(y)]
Ramp(n) == [i \in 1..n |-> Q(i)]

\* a padding mask: k valid positions followed by n - k padded ones
PrefixMask(n, k) == [i \in 1..n |-> IF i <= k THEN ROne ELSE RZero]

V(seq, g) == T(1, seq, g)

\* the masks of a loss: none for a feed-forward model; all valid, one padded
\* position or all padded for a recurrent one
Maskings(n) ==
    {[rnn |-> FALSE]}
    \cup {[rnn |-> TRUE, out_masks |-> V(PrefixMask(n, k), {})] : k \in {0, n - 1, n}}

WithMask(batch, m) ==
    IF m.rnn THEN [x \in DOMAIN batch \cup {"out_masks"} |->
                      IF x = "out_masks" THEN m.out_masks ELSE batch[x]]
    ELSE batch

BatchSizes == 1..MaxBatch
AdvVals == {-2, -1, 1, 2}
\* log-likelihoods of the taken actions under the evaluated policy
LlhVecs(n) == {Const(0, n), Const(-1, n), Alt(0, -1, n)}
ClipParams == {<<-1, 2>>, RZero, <<1, 5>>}
EntBetas == {RZero, ROne}
KlBetas == {Q(-1), RZero, ROne}

NoOut == [none |-> TRUE]

Ready(f) ==
    /\ pc = "ready"
    /\ fn = f
    /\ out = NoOut
    /\ hidden = 0
    /\ calls = <<>>

init_pg_clip ==
    /\ Ready("pg_clip")
    /\ \E n \in BatchSizes :
         \E a \in Vecs(AdvVals, n), l \in {Const(0, n), Alt(0, -1, n)},
            m \in Maskings(n), c \in ClipParams, e \in EntBetas :
            args = [rnn |-> m.rnn,
                    old_llh |-> V(Const(0, n), {}),
                    new_llh |-> V(l, {"pol"}),
                    ent |-> V(Ramp(n), {"pol"}),
                    batch |-> WithMask([advs |-> V(a, {})], m),
                    clip_param |-> c,
                    ent_beta |-> e]

init_pg ==
    /\ Ready("pg")
    /\ \E n \in BatchSizes :
         \E a \in Vecs({-1, 2}, n), l \in LlhVecs(n), m \in Maskings(n),
            e \in EntBetas :
            args = [rnn |-> m.rnn,
                    llh |-> V(l, {"pol"}),
                    ent |-> V(Ramp(n), {"pol"}),
                    batch |-> WithMask([advs |-> V(a, {})], m),
                    ent_beta |-> e]

init_pg_kl ==
    /\ Ready("pg_kl")
    /\ \E n \in BatchSizes :
         \E a \in {Alt(1, -2, n), Const(2, n)}, l \in LlhVecs(n),
            k \in Vecs({0, 1}, n), m \in Maskings(n),
            kb \in KlBetas, e \in EntBetas :
            args = [rnn |-> m.rnn,
                    old_llh |-> V(Const(0, n), {}),
                    new_llh |-> V(l, {"pol"}),
                    kl |-> V(k, {"pol"}),
                    ent |-> V(Ramp(n), {"pol"}),
                    batch |-> WithMask([advs |-> V(a, {})], m),
                    kl_beta |-> kb,
                    ent_beta |-> e]

init_monte_carlo ==
    /\ Ready("monte_carlo")
    /\ \E n \in BatchSizes :
         \E v \in Vecs({0, 2}, n), r \in {Const(1, n), Ramp(n)},
            m \in Maskings(n), c \in ClipParams, clip \in BOOLEAN :
            \E o \in {v, Const(0, n), Const(1, n)} :
               args = [rnn |-> m.rnn,
                       vs |-> V(v, {"vf"}),
                       batch |-> WithMask([rets |-> V(r, {}), vs |-> V(o, {})], m),
                       clip_param |-> c,
                       clip |-> clip]

\* matrices [batch][feature]
ConstMat(x, n, d) == [i \in 1..n |-> [k \in 1..d |-> Q(x)]]
RampMat(n, d) == [i \in 1..n |-> [k \in 1..d |-> Q(i + k)]]
M(rows, g) == T(2, rows, g)
FeatureDims == {1, 2}

init_dynamics ==
    /\ Ready("dynamics")
    /\ \E n \in BatchSizes, d \in FeatureDims, target \in {"next_obs", "rews"},
          td \in BOOLEAN :
         \E m \in Maskings(n),
            p \in {ConstMat(0, n, IF target = "rews" THEN 1 ELSE d),
                   RampMat(n, IF target = "rews" THEN 1 ELSE d)},
            o \in {ConstMat(1, n, d), RampMat(n, d)},
            no \in {ConstMat(2, n, d), RampMat(n, d)} :
            args = [rnn |-> m.rnn,
                    pred |-> M(p, {"dm"}),
                    batch |-> WithMask([obs |-> M(o, {}), next_obs |-> M(no, {}),
                                        rews |-> M(ConstMat(1, n, 1), {})], m),
                    target |-> target,
                    td |-> td]

InitOnPolicy ==
    \/ init_pg
    \/ init_pg_clip
    \/ init_pg_kl
    \/ init_monte_carlo
    \/ init_dynamics

Returned == pc' = "done" /\ UNCHANGED <<fn, args, hidden, calls>>

call_pg ==
    /\ pc = "ready" /\ fn = "pg"
    /\ out' = pg(args.rnn, args.llh, args.ent, args.batch, args.ent_beta)
    /\ Returned

call_pg_clip ==
    /\ pc = "ready" /\ fn = "pg_clip"
    /\ out' = pg_clip(args.rnn, args.old_llh, args.new_llh, args.ent,
                      args.batch, args.clip_param, args.ent_beta)
    /\ Returned

call_pg_kl ==
    /\ pc = "ready" /\ fn = "pg_kl"
    /\ out' = pg_kl(args.rnn, args.old_llh, args.new_llh, args.kl, args.ent,
                    args.batch, args.kl_beta, args.ent_beta)
    /\ Returned

call_monte_carlo ==
    /\ pc = "ready" /\ fn = "monte_carlo"
    /\ out' = monte_carlo(args.rnn, args.vs, args.batch, args.clip_param, args.clip)
    /\ Returned

call_dynamics ==
    /\ pc = "ready" /\ fn = "dynamics"
    /\ out' = dynamics(args.rnn, args.pred, args.batch, args.target, args.td)
    /\ Returned

NextOnPolicy ==
    \/ call_pg
    \/ call_pg_clip
    \/ call_pg_kl
    \/ call_monte_carlo
    \/ call_dynamics

SpecOnPolicy == InitOnPolicy /\ [][NextOnPolicy]_vars

(***************************************************************************)
(* Properties of the on-policy losses (checked under SpecOnPolicy).        *)
(***************************************************************************)
Done(f) == pc = "done" /\ fn = f

AllEq(t, x) == \A i \in DOMAIN t.v : t.v[i] = x

\* the scalar a call returned
Loss ==
    CASE fn \in {"pg", "pg_clip", "pg_kl"} -> out.pol_loss.v
      [] fn = "monte_carlo" -> out.vf_loss.v
      [] fn = "dynamics" -> out.dm_loss.v

\* ent_beta * mean(ent), the entropy term the policy-gradient losses subtract
EntTerm == RMul(args.ent_beta, TMean(args.ent).v)

\* the per-element loss of a call, before the mask and the reduction
PerElement ==
    CASE fn = "pg" -> TNeg(TMul(args.llh, args.batch.advs))
      [] fn = "pg_clip" -> TMaxE(out.pol_loss1, out.pol_loss2)
      [] fn = "pg_kl" ->
            TNeg(TSub(TMul(out.ratio, args.batch.advs), TMul(F(args.kl_beta), args.kl)))
      [] fn = "monte_carlo" -> TMul(F(RHalf), TMaxE(out.vfloss1, out.vfloss2))
      [] fn = "dynamics" -> TMul(F(RHalf), TMeanLast(out.dm_loss_elem))

\* the loss with a plain mean over all elements in place of the masked one
UnmaskedLoss ==
    IF fn \in {"pg", "pg_clip", "pg_kl"}
    THEN RSub(TMean(PerElement).v, EntTerm)
    ELSE TMean(PerElement).v

MaskedCall ==
    /\ pc = "done"
    /\ fn \in {"pg", "pg_clip", "pg_kl", "monte_carlo", "dynamics"}
    /\ args.rnn

\* C4 as stated: for pg, pg_clip, pg_kl, monte_carlo and dynamics called with
\* a recurrent model, an all-ones mask gives the loss of the plain unmasked
\* mean and an all-zeros mask gives a loss of exactly zero.
C4_MaskOnesUnmaskedZerosZero ==
    MaskedCall =>
        /\ AllEq(args.batch.out_masks, ROne) => Loss = UnmaskedLoss
        /\ AllEq(args.batch.out_masks, RZero) => Loss = RZero

\* C4 amended: an all-ones mask gives the loss of the plain unmasked mean; an
\* all-zeros mask zeroes the masked mean, so monte_carlo and dynamics return
\* exactly zero while pg, pg_clip and pg_kl return -ent_beta * mean(ent), the
\* entropy term, which no mask gates.
C4_MaskOnesUnmaskedZerosEntropy ==
    MaskedCall =>
        /\ AllEq(args.batch.out_masks, ROne) => Loss = UnmaskedLoss
        /\ AllEq(args.batch.out_masks, RZero) =>
              Loss = IF fn \in {"pg", "pg_clip", "pg_kl"} THEN RNeg(EntTerm) ELSE RZero

C4_Witness ==
    /\ MaskedCall
    /\ fn = "pg_clip"
    /\ Len(args.batch.out_masks.v) = 2
    /\ AllEq(args.batch.out_masks, RZero)
    /\ args.ent_beta = ROne
    /\ Loss = <<-3, 2>>

\* the mask a call applied
EffMask == IF args.rnn THEN args.batch.out_masks ELSE OnesLike(args.batch.advs)

RatioOne == Done("pg_clip") /\ args.new_llh.v = args.old_llh.v

\* what C5 concludes when the ratio is 1 everywhere
C5_Conclusion ==
    /\ out.pol_loss1.v = out.pol_loss2.v
    /\ RAdd(Loss, EntTerm) = RNeg(TMean(TMul(args.batch.advs, EffMask)).v)
    /\ (args.batch.advs.v = <<Q(1), Q(-1), Q(2), Q(-2)>> /\ AllEq(EffMask, ROne))
          => RAdd(Loss, EntTerm) = RZero

\* C5 as stated: in pg_clip, when old_llh equals new_llh elementwise, the
\* unclipped and clipped terms are equal elementwise and the loss without its
\* entropy term is -mean(advs * mask); advantages [1, -1, 2, -2] with an
\* all-ones mask give 0.
C5_RatioOneEqualsPg == RatioOne => C5_Conclusion

\* C5 amended: the same, for a clip range clip_param >= 0.
C5_RatioOneEqualsPgNonNegClip ==
    (RatioOne /\ RLe(RZero, args.clip_param)) => C5_Conclusion

C5_Witness ==
    /\ RatioOne
    /\ args.clip_param = <<1, 5>>
    /\ args.ent_beta = ROne
    /\ args.batch.advs.v = <<Q(1), Q(-1), Q(2), Q(-2)>>
    /\ AllEq(EffMask, ROne)
    /\ RAdd(Loss, EntTerm) = RZero

ClipNoChange == Done("monte_carlo") /\ args.clip /\ args.batch.vs.v = args.vs.v

MCMask == IF args.rnn THEN args.batch.out_masks ELSE OnesLike(args.batch.rets)

\* what C7 concludes when the recorded predictions equal the new ones
C7_Conclusion ==
    /\ out.vfloss2.v = out.vfloss1.v
    /\ Loss = RMul(RHalf,
                   TMean(TMul(TSq(TSub(args.vs, args.batch.rets)), MCMask)).v)
    /\ Loss = monte_carlo(args.rnn, args.vs, args.batch, args.clip_param, FALSE).vf_loss.v

\* C7 as stated: in monte_carlo with clip=True and batch['vs'] equal to vs
\* elementwise, the clipped squared error equals the unclipped one and the
\* loss is the clip=False loss 0.5 * mean((vs - rets)^2 * mask), for every
\* rets, mask and clip_param.
C7_ClipNoOp == ClipNoChange => C7_Conclusion

\* C7 amended: the same, for every rets and mask and every clip_param >= 0.
C7_ClipNoOpNonNegClip ==
    (ClipNoChange /\ RLe(RZero, args.clip_param)) => C7_Conclusion

C7_Witness ==
    /\ ClipNoChange
    /\ args.clip_param = <<1, 5>>
    /\ args.vs.v = <<Q(2), Q(0)>>
    /\ args.batch.rets.v = <<Q(1), Q(2)>>
    /\ ~args.rnn
    /\ Loss = <<5, 4>>

KlMask == IF args.rnn THEN args.batch.out_masks ELSE OnesLike(args.batch.advs)

\* the pg_kl loss of the call's inputs with the KL tensor replaced
LossWithKl(kl) ==
    pg_kl(args.rnn, args.old_llh, args.new_llh, kl, args.ent,
          args.batch, args.kl_beta, args.ent_beta).pol_loss.v

\* the raises of a KL tensor: one element by 1, or every element by 1
Raises(n) ==
    {[i \in 1..n |-> IF i = j THEN ROne ELSE RZero] : j \in 1..n} \cup {Const(1, n)}

\* C9: pg_kl returns -mean((ratio * advs - kl_beta * KL) * mask)
\* - ent_beta * mean(ent); for kl_beta >= 0 (the mask being 0/1) raising any
\* element's KL with everything else fixed never lowers the loss, and with
\* kl_beta = 0 the loss does not depend on KL.
C9_KlIsCost ==
    Done("pg_kl") =>
        /\ Loss = RSub(RNeg(TMean(TMul(TSub(TMul(out.ratio, args.batch.advs),
                                            TMul(F(args.kl_beta), args.kl)),
                                       KlMask)).v),
                       EntTerm)
        /\ \A d \in Raises(Len(args.kl.v)) :
              LET raised == TAdd(args.kl, V(d, {}))
              IN  /\ RLe(RZero, args.kl_beta) => RLe(Loss, LossWithKl(raised))
                  /\ args.kl_beta = RZero => LossWithKl(raised) = Loss

C9_Witness ==
    /\ Done("pg_kl")
    /\ args.kl_beta = ROne
    /\ args.kl.v = <<Q(0), Q(1)>>
    /\ ~args.rnn
    /\ \E d \in Raises(2) :
          ~RLe(LossWithKl(TAdd(args.kl, V(d, {}))), Loss)

(***************************************************************************)
(* Bootstrapped critic losses.  A critic is modelled by its table of       *)
(* values: table[i][a] is its output at next_obs[i] and next action a.     *)
(* Its name tags the tensors it produces in the autograd graph.            *)
(***************************************************************************)
Actions == {1, 2}

\* targ_qf(next_obs, next_acs)[0] for next_acs of shape [sample][batch]
EvalQSampled(table, name, acs) ==
    T(2, [s \in DOMAIN acs.v |-> [i \in DOMAIN acs.v[s] |-> table[i][acs.v[s][i]]]],
      {name} \cup acs.g)

\* targ_qf(next_obs, next_acs)[0] for next_acs of shape [batch]
EvalQ(table, name, acs) ==
    T(1, [i \in DOMAIN acs.v |-> table[i][acs.v[i]]], {name} \cup acs.g)

\* a greedy action of a critic at next_obs[i]
ArgMax(row) == CHOOSE a \in Actions : \A b \in Actions : RLe(row[b], row[a])

\* targ_qf.max(next_obs): the greedy value and the greedy action
QMax(table, name) ==
    [q |-> T(1, [i \in DOMAIN table |-> table[i][ArgMax(table[i])]], {name}),
     acs |-> T(1, [i \in DOMAIN table |-> ArgMax(table[i])], {name, "next_acs"})]

\* the TD target with the discount left out
Mut_td_target(rews, gamma, next_q, dones) ==
    TAdd(rews, TMul(next_q, TSub(F(ROne), dones)))

\* rews + gamma * next_q * (1 - dones)
td_target(rews, gamma, next_q, dones) ==
    TAdd(rews, TMul(TMul(F(gamma), next_q), TSub(F(ROne), dones)))

\* a target left attached to the graph
Mut_detach_target(targ) == targ

\* targ = targ.detach()
detach_target(targ) == Detach(targ)

Raise(e) == [error |-> e]
Raised == "error" \in DOMAIN out

bellman(q, targ_qf, next_acs, batch, gamma, continuous, reduction) ==
    IF continuous
    THEN LET targ_q == EvalQSampled(targ_qf, "targ_qf", next_acs)
             next_q == TMeanDim0(targ_q)
             targ == detach_target(td_target(batch.rews, gamma, next_q, batch.dones))
             ret == TMul(F(RHalf), TSq(TSub(q, targ)))
         IN  [targ |-> targ,
              ret |-> IF reduction # "none"
                      THEN IF reduction = "elementwise_mean" THEN TMean(ret)
                           ELSE TSum(ret)
                      ELSE ret]
    ELSE Raise("NotImplementedError")

\* torch.log on the probabilities the model uses, rounded to one decimal place
RLog(a) ==
    CASE a = <<1, 4>> -> <<-7, 5>>
      [] a = <<1, 2>> -> <<-7, 10>>
      [] a = <<3, 4>> -> <<-3, 10>>

\* nn.BCELoss()(q, targ) = -mean(targ * log(q) + (1 - targ) * log(1 - q))
BCELoss(q, targ) ==
    TNeg(TMean(TAdd(TMul(targ, Un(RLog, q)),
                    TMul(TSub(F(ROne), targ), Un(RLog, TSub(F(ROne), q))))))

\* the second target critic evaluated at the first one's greedy action
clipped_targ_q(targ_qf1, targ_qf2) ==
    LET m == QMax(targ_qf1, "targ_qf1")
    IN  TMinE(m.q, EvalQ(targ_qf2, "targ_qf2", m.acs))

\* the mean squared error without its factor 0.5
Mut_clipped_mse(q, targ) == TMean(TSq(TSub(q, targ)))

\* torch.mean(0.5 * (q - targ) ** 2)
clipped_mse(q, targ) == TMean(TMul(F(RHalf), TSq(TSub(q, targ))))

clipped_double_bellman(q, targ_qf1, targ_qf2, batch, gamma, loss_type) ==
    LET targ_q == clipped_targ_q(targ_qf1, targ_qf2)
        targ == detach_target(td_target(batch.rews, gamma, targ_q, batch.dones))
    IN  IF loss_type = "bce"
        THEN [targ |-> targ, ret |-> BCELoss(q, targ)]
        ELSE IF loss_type = "mse"
        THEN [targ |-> targ, ret |-> clipped_mse(q, targ)]
        ELSE Raise("ValueError")

ConstR(x, n) == [i \in 1..n |-> x]
AltR(x, y, n) == [i \in 1..n |-> IF i % 2 = 1 THEN x ELSE y]

\* Q(obs, acs) of the online critic, probability-like as BCELoss requires
QVecs(n) == {ConstR(<<1, 2>>, n), AltR(<<1, 4>>, <<3, 4>>, n)}
RewVecs(n) == {Const(0, n), Alt(1, 0, n)}
DoneVecs(n) == {Const(0, n), Alt(0, 1, n)}
Gammas == {RZero, RHalf, ROne}
\* target critics: greedy action 2 everywhere, 1 everywhere, or alternating
TargTables(n) ==
    {ConstR(<<RZero, ROne>>, n), ConstR(<<ROne, RHalf>>, n),
     AltR(<<RZero, ROne>>, <<ROne, RZero>>, n)}
\* the next actions of one sample: action 1, action 2, or alternating
AcsRows(n) == {ConstR(1, n), ConstR(2, n), AltR(2, 1, n)}
\* pd.sample(pd_params, torch.Size([sampling]))
SampledAcs(n) == UNION {[1..k -> AcsRows(n)] : k \in 1..MaxSampling}
\* the three reductions bellman tells apart, and the docstring's "elementwise"
Reductions == {"elementwise_mean", "sum", "none", "elementwise"}
LossTypes == {"bce", "mse", "huber"}

init_bellman ==
    /\ Ready("bellman")
    /\ \E n \in BatchSizes :
         \E q \in QVecs(n), t \in TargTables(n), na \in SampledAcs(n),
            r \in RewVecs(n), d \in DoneVecs(n), gm \in Gammas,
            c \in BOOLEAN, red \in Reductions :
            args = [q |-> V(q, {"qf"}),
                    targ_qf |-> t,
                    next_acs |-> T(2, na, {"targ_pol", "next_acs"}),
                    batch |-> [rews |-> V(r, {}), dones |-> V(d, {})],
                    gamma |-> gm,
                    continuous |-> c,
                    reduction |-> red]

init_clipped_double_bellman ==
    /\ Ready("clipped_double_bellman")
    /\ \E n \in BatchSizes :
         \E q \in QVecs(n), t1 \in TargTables(n), t2 \in TargTables(n),
            r \in RewVecs(n), d \in DoneVecs(n), gm \in Gammas, lt \in LossTypes :
            args = [q |-> V(q, {"qf"}),
                    targ_qf1 |-> t1,
                    targ_qf2 |-> t2,
                    batch |-> [rews |-> V(r, {}), dones |-> V(d, {})],
                    gamma |-> gm,
                    loss_type |-> lt]

InitBellman ==
    \/ init_bellman
    \/ init_clipped_double_bellman

call_bellman ==
    /\ pc = "ready" /\ fn = "bellman"
    /\ out' = bellman(args.q, args.targ_qf, args.next_acs, args.batch, args.gamma,
                      args.continuous, args.reduction)
    /\ Returned

call_clipped_double_bellman ==
    /\ pc = "ready" /\ fn = "clipped_double_bellman"
    /\ out' = clipped_double_bellman(args.q, args.targ_qf1, args.targ_qf2,
                                     args.batch, args.gamma, args.loss_type)
    /\ Returned

NextBellman ==
    \/ call_bellman
    \/ call_clipped_double_bellman

SpecBellman == InitBellman /\ [][NextBellman]_vars

(***************************************************************************)
(* Soft actor critic.  The critics' and the policy's outputs are inputs:   *)
(* sampled_qs[k] = qfs[k](sampled_obs, sampled_acs)[0] and so on.          *)
(* normalize is False, its default: the standardisation of pg_weight       *)
(* divides by a standard deviation, which the rationals do not hold.       *)
(***************************************************************************)
\* torch.min(*ts) and torch.max(*ts) accept one tensor (a reduction over all
\* of its elements) or two (elementwise); any other count is a TypeError.
TorchAccepts(ts) == Len(ts) \in {1, 2}

torch_min(ts) == IF Len(ts) = 1 THEN TMinAll(ts[1]) ELSE TMinE(ts[1], ts[2])

torch_max(ts) == IF Len(ts) = 1 THEN TMaxAll(ts[1]) ELSE TMaxE(ts[1], ts[2])

sac(log_alpha, sampled_llh, sampled_next_llh, sampled_qs, sampled_next_targ_qs, qs, batch, gamma, reparam, ac_dim) ==
    LET alpha == TExp(log_alpha)
        next_vs == [k \in DOMAIN sampled_next_targ_qs |->
                      TMeanDim0(TSub(sampled_next_targ_qs[k],
                                     TMul(alpha, sampled_next_llh)))]
        next_v == torch_min(next_vs)
        q_targ == detach_target(td_target(batch.rews, gamma, next_v, batch.dones))
        qf_losses == [k \in DOMAIN qs |->
                        TMul(F(RHalf), TMean(TSq(TSub(qs[k], q_targ))))]
        pol_losses == [k \in DOMAIN sampled_qs |->
                         TMeanDim0(TSub(TMul(alpha, sampled_llh), sampled_qs[k]))]
        pg_weights == [k \in DOMAIN sampled_qs |-> Detach(pol_losses[k])]
        pol_loss == IF reparam
                    THEN TMean(torch_max(pol_losses))
                    ELSE TMean(TMul(TMeanDim0(sampled_llh), torch_max(pg_weights)))
        alpha_loss == TNeg(TMean(TMul(log_alpha,
                                      Detach(TSub(sampled_llh, F(Q(ac_dim)))))))
    IN  IF ~TorchAccepts(sampled_next_targ_qs)
        THEN Raise("TypeError")
        ELSE [next_vs |-> next_vs,
              next_v |-> next_v,
              q_targ |-> q_targ,
              per_critic |-> IF reparam THEN pol_losses ELSE pg_weights,
              pol_loss |-> pol_loss,
              qf_losses |-> qf_losses,
              alpha_loss |-> alpha_loss]

\* tensors [sample][batch] and [batch] of the collaborators
MatPat(p, ns, n) ==
    CASE p = 0 -> [s \in 1..ns |-> [i \in 1..n |-> Q(1)]]
      [] p = 1 -> [s \in 1..ns |-> [i \in 1..n |-> Q(i)]]
      [] p = 2 -> [s \in 1..ns |-> [i \in 1..n |-> Q(s - i)]]

VecPat(p, n) ==
    CASE p = 0 -> Const(1, n)
      [] p = 1 -> Ramp(n)
      [] p = 2 -> Alt(0, 2, n)

LlhPat(p, ns, n) ==
    CASE p = 0 -> [s \in 1..ns |-> [i \in 1..n |-> Q(-1)]]
      [] p = 1 -> [s \in 1..ns |-> [i \in 1..n |-> Q(0 - ((s + i) % 2))]]

QfName(k) == <<"qf1", "qf2", "qf3", "qf4", "qf5">>[k]
TargQfName(k) == <<"targ_qf1", "targ_qf2", "targ_qf3", "targ_qf4", "targ_qf5">>[k]

init_sac ==
    /\ Ready("sac")
    /\ \E n \in BatchSizes, ns \in 1..MaxSampling, nk \in 1..MaxEnsemble :
         \E vt \in 0..2, vq \in 0..2, lp \in 0..1,
            r \in RewVecs(n), d \in DoneVecs(n), gm \in {RHalf, ROne},
            la \in {0, -1}, reparam \in BOOLEAN :
            args = [log_alpha |-> T(0, Q(la), {"log_alpha"}),
                    sampled_llh |-> T(2, LlhPat(lp, ns, n), {"pol"}),
                    sampled_next_llh |-> T(2, LlhPat(1, ns, n), {"pol", "next_acs"}),
                    sampled_qs |-> [k \in 1..nk |->
                        T(2, MatPat((vq + k) % 3, ns, n), {QfName(k), "pol"})],
                    sampled_next_targ_qs |-> [k \in 1..nk |->
                        T(2, MatPat((vt + k) % 3, ns, n),
                          {TargQfName(k), "pol", "next_acs"})],
                    qs |-> [k \in 1..nk |-> T(1, VecPat((vq + k) % 3, n), {QfName(k)})],
                    batch |-> [rews |-> V(r, {}), dones |-> V(d, {})],
                    gamma |-> gm,
                    reparam |-> reparam,
                    normalize |-> FALSE,
                    ac_dim |-> 2]

call_sac ==
    /\ pc = "ready" /\ fn = "sac"
    /\ out' = sac(args.log_alpha, args.sampled_llh, args.sampled_next_llh,
                  args.sampled_qs, args.sampled_next_targ_qs, args.qs, args.batch,
                  args.gamma, args.reparam, args.ac_dim)
    /\ Returned

SpecSac == init_sac /\ [][call_sac]_vars

InitCritic == InitBellman \/ init_sac

NextCritic ==
    \/ call_bellman
    \/ call_clipped_double_bellman
    \/ call_sac

SpecCritic == InitCritic /\ [][NextCritic]_vars

(***************************************************************************)
(* Properties of the critic losses.                                        *)
(***************************************************************************)
\* element j of a tensor as broadcasting reads it
At(t, j) == IF t.r = 0 THEN t.v ELSE t.v[j]

SingleCritic == Done("sac") /\ ~Raised /\ Len(args.qs) = 1

\* C1: in sac with a single critic the min over target critics and the max
\* over per-critic policy losses are the identity: next_v[j] is the critic's
\* soft value next_vs[0][j], q_targ[j] = rews[j] + gamma * next_vs[0][j] *
\* (1 - dones[j]), and the policy loss and the critic loss are those of the
\* single critic's values.
C1_SingleCriticIdentity ==
    SingleCritic =>
        LET single == out.next_vs[1]
            targ == td_target(args.batch.rews, args.gamma, single, args.batch.dones)
            weight == out.per_critic[1]
        IN  /\ \A j \in DOMAIN single.v :
                  /\ At(out.next_v, j) = single.v[j]
                  /\ At(out.q_targ, j) = targ.v[j]
            /\ out.qf_losses[1].v =
                  RMul(RHalf, TMean(TSq(TSub(args.qs[1], targ))).v)
            /\ out.pol_loss.v =
                  IF args.reparam THEN TMean(weight).v
                  ELSE TMean(TMul(TMeanDim0(args.sampled_llh), weight)).v

SupportedReductions == {"elementwise_mean", "sum", "none"}

\* C2: an unsupported configuration ends in an error and never in a returned
\* loss: bellman with continuous=False, bellman with a reduction outside its
\* supported set, clipped_double_bellman with a loss_type other than 'bce'
\* and 'mse'.
C2_UnsupportedRaises ==
    /\ (Done("bellman") /\ ~args.continuous) => Raised
    /\ (Done("bellman") /\ args.reduction \notin SupportedReductions) => Raised
    /\ (Done("clipped_double_bellman") /\ args.loss_type \notin {"bce", "mse"})
          => Raised

SameTargets ==
    /\ Done("clipped_double_bellman")
    /\ args.loss_type = "mse"
    /\ args.targ_qf1 = args.targ_qf2

\* bellman's mean-reduced loss with the call's critic and its single target
\* critic, for the next actions na sampled from a target policy
BellmanMse(na) ==
    bellman(args.q, args.targ_qf1, T(2, na, {"targ_pol", "next_acs"}), args.batch,
            args.gamma, TRUE, "elementwise_mean").ret.v

\* every sampled next action is a greedy action of the target critic
Greedy(na, table) ==
    \A s \in DOMAIN na : \A i \in DOMAIN na[s] :
        \A b \in Actions : RLe(table[i][b], table[i][na[s][i]])

\* C3 as stated: clipped_double_bellman with loss_type='mse' returns bellman's
\* mean-reduced loss for the same critic and target critic whenever targ_qf1
\* and targ_qf2 are the same function.
C3_ClippedEqualsBellman ==
    SameTargets =>
        \A na \in SampledAcs(Len(args.q.v)) : BellmanMse(na) = out.ret.v

\* C3 amended: the same, provided every next action bellman samples from its
\* target policy is a greedy action of the target critic.
C3_ClippedEqualsGreedyBellman ==
    SameTargets =>
        \A na \in SampledAcs(Len(args.q.v)) :
            Greedy(na, args.targ_qf1) => BellmanMse(na) = out.ret.v

C3_Witness ==
    /\ SameTargets
    /\ Len(args.q.v) = 2
    /\ args.gamma = ROne
    /\ AllEq(args.batch.dones, RZero)
    /\ \E na \in SampledAcs(2) :
          Greedy(na, args.targ_qf1) /\ Len(na) = 2 /\ BellmanMse(na) = out.ret.v
    /\ \E na \in SampledAcs(2) : BellmanMse(na) # out.ret.v

\* the parameters and tensors on the target side of a TD target
TargetSide ==
    {"targ_pol", "next_acs", "log_alpha", "pol"}
    \cup {TargQfName(k) : k \in 1..5} \cup {"targ_qf"}

\* C6: in bellman, clipped_double_bellman and sac the TD target is detached
\* before it meets Q(obs, acs): a returned critic loss carries gradient to
\* the parameters of the critic being regressed and to nothing else - not to
\* a target critic, the target policy, the sampled next actions, log_alpha
\* or the policy.
C6_TargetDetached ==
    (pc = "done" /\ ~Raised) =>
        /\ fn \in {"bellman", "clipped_double_bellman"} =>
              /\ out.targ.g = {}
              /\ out.ret.g = {"qf"}
        /\ fn = "sac" =>
              /\ out.q_targ.g = {}
              /\ \A k \in DOMAIN out.qf_losses :
                    /\ out.qf_losses[k].g = {QfName(k)}
                    /\ out.qf_losses[k].g \cap TargetSide = {}

C6_Witness ==
    /\ Done("sac")
    /\ ~Raised
    /\ Len(args.qs) = 2
    /\ out.qf_losses[2].g = {"qf2"}
    /\ {"targ_qf1", "targ_qf2", "log_alpha", "pol", "next_acs"} \subseteq
          td_target(args.batch.rews, args.gamma, out.next_v, args.batch.dones).g

NoBootstrap ==
    /\ Done("bellman")
    /\ ~Raised
    /\ args.gamma = RZero
    /\ AllEq(args.batch.dones, RZero)

\* every sample of the next actions drawn as the row acs
Repeated(acs, ns) == [s \in 1..ns |-> acs]

\* C8: in bellman with gamma = 0 and every done-flag 0 the TD target is rews
\* elementwise, and the loss is the same for any two target policies and
\* target critics: it is the reduction of 0.5 * (q - rews)^2, whatever the
\* target critic's table and the target policy's next actions are.
C8_NoBootstrapIgnoresTargets ==
    NoBootstrap =>
        LET se == TMul(F(RHalf), TSq(TSub(args.q, args.batch.rews)))
        IN  /\ out.targ.v = args.batch.rews.v
            /\ out.ret.v = CASE args.reduction = "none" -> se.v
                             [] args.reduction = "elementwise_mean" -> TMean(se).v
                             [] OTHER -> TSum(se).v
            /\ \A t \in TargTables(Len(args.q.v)), acs \in AcsRows(Len(args.q.v)) :
                  bellman(args.q, t,
                          T(2, Repeated(acs, Len(args.next_acs.v)),
                            {"targ_pol", "next_acs"}),
                          args.batch, args.gamma, args.continuous,
                          args.reduction).ret.v = out.ret.v

C8_Witness ==
    /\ NoBootstrap
    /\ args.reduction = "elementwise_mean"
    /\ args.q.v = <<<<1, 4>>, <<3, 4>>>>
    /\ args.batch.rews.v = <<Q(1), Q(0)>>
    /\ args.targ_qf = <<<<RZero, ROne>>, <<ROne, RZero>>>>
    /\ out.ret.v = <<9, 32>>

(***************************************************************************)
(* The calls a loss makes on its policy.  The policy is an object of the   *)
(* training loop: its recurrent state (hidden) outlives a call of a loss,  *)
(* reset() clears it and an evaluation advances it.  The training loop     *)
(* calls one loss after the other; each step below is one call on the      *)
(* policy, in the order of the source.                                     *)
(***************************************************************************)
PolicyLosses == {"pg", "pg_clip", "pg_kl", "sac"}

\* the recurrent states a policy may be left in by a rollout; 0 is cleared
HiddenStates == 0..2

\* the calls a loss makes on pol, in order: "reset" is pol.reset(), "obs" is
\* pol(obs, ...) and "next_obs" is pol(next_obs)
pg_pol_calls == <<"reset", "obs">>

pg_clip_pol_calls == <<"reset", "obs">>

pg_kl_pol_calls == <<"reset", "obs">>

\* sac evaluating next_obs on the state the first evaluation left
Mut_sac_pol_calls == <<"reset", "obs", "next_obs">>

sac_pol_calls == <<"reset", "obs", "reset", "next_obs">>

PolCalls(f) ==
    CASE f = "pg" -> pg_pol_calls
      [] f = "pg_clip" -> pg_clip_pol_calls
      [] f = "pg_kl" -> pg_kl_pol_calls
      [] f = "sac" -> sac_pol_calls

\* the recurrent state after evaluating the policy on a batch field
StepHidden(h, on) == 1 + ((h + (IF on = "obs" THEN 1 ELSE 2)) % 2)

InitCalls ==
    /\ pc = "idle"
    /\ fn = "none"
    /\ args = [made |-> 0, at |-> 0]
    /\ out = NoOut
    /\ hidden \in HiddenStates
    /\ calls = <<>>

\* the training loop calls a loss
start_call ==
    /\ pc = "idle"
    /\ args.made < MaxCalls
    /\ \E f \in PolicyLosses : fn' = f
    /\ args' = [made |-> args.made + 1, at |-> 1]
    /\ pc' = "run"
    /\ UNCHANGED <<out, hidden, calls>>

Running == pc = "run" /\ args.at <= Len(PolCalls(fn))

\* pol.reset()
pol_reset ==
    /\ Running
    /\ PolCalls(fn)[args.at] = "reset"
    /\ hidden' = 0
    /\ calls' = Append(calls, [op |-> "reset", fn |-> fn, k |-> args.made])
    /\ args' = [args EXCEPT !.at = @ + 1]
    /\ UNCHANGED <<fn, out, pc>>

\* _, _, pd_params = pol(obs) and pol(next_obs)
pol_eval ==
    /\ Running
    /\ PolCalls(fn)[args.at] \in {"obs", "next_obs"}
    /\ hidden' = StepHidden(hidden, PolCalls(fn)[args.at])
    /\ calls' = Append(calls, [op |-> "eval", fn |-> fn, k |-> args.made,
                               on |-> PolCalls(fn)[args.at], h |-> hidden])
    /\ args' = [args EXCEPT !.at = @ + 1]
    /\ UNCHANGED <<fn, out, pc>>

\* the loss returns
return_loss ==
    /\ pc = "run"
    /\ args.at > Len(PolCalls(fn))
    /\ pc' = "idle"
    /\ UNCHANGED <<fn, args, out, hidden, calls>>

NextCalls ==
    \/ start_call
    \/ pol_reset
    \/ pol_eval
    \/ return_loss

SpecCalls == InitCalls /\ [][NextCalls]_vars

\* the calls of the k-th call of a loss, in order
RECURSIVE CallsOf(_, _)
CallsOf(cs, k) ==
    IF cs = <<>> THEN <<>>
    ELSE IF Head(cs).k = k THEN <<Head(cs)>> \o CallsOf(Tail(cs), k)
    ELSE CallsOf(Tail(cs), k)

Ops(cs) == [i \in DOMAIN cs |-> IF cs[i].op = "reset" THEN "reset" ELSE cs[i].on]

\* C10: every evaluation of the policy comes right after a reset() of it, so
\* it starts from a cleared recurrent state: pg, pg_clip and pg_kl reset and
\* evaluate on obs once; sac resets, evaluates on obs, resets again and
\* evaluates on next_obs.
C10_ResetBeforeEveryEval ==
    /\ \A i \in DOMAIN calls :
          calls[i].op = "eval" =>
              /\ i > 1
              /\ calls[i - 1].op = "reset"
              /\ calls[i - 1].k = calls[i].k
              /\ calls[i].h = 0
    /\ (pc = "idle" /\ args.made > 0) =>
          Ops(CallsOf(calls, args.made)) =
              IF fn = "sac" THEN <<"reset", "obs", "reset", "next_obs">>
              ELSE <<"reset", "obs">>

C10_Witness ==
    /\ pc = "idle"
    /\ fn = "sac"
    /\ args.made = 2
    /\ Len(calls) = 6
    /\ calls[1].fn = "pg_clip"
    /\ calls[6].op = "eval" /\ calls[6].on = "next_obs" /\ calls[6].h = 0
    /\ hidden # 0

====
